---- MODULE Spec2Model ----
(***************************************************************************)
(* A model of assets/scripts/main.js of Pharos Hub: the wallet-check       *)
(* controllers (PharosAPI with UIState and EventHandlers; UIStateManager   *)
(* with APIService), the address validators and the task-progress          *)
(* evaluator.                                                              *)
(*                                                                         *)
(* Text that the program inspects character by character (addresses, the   *)
(* value text of a task) is a sequence of one-character strings; text that *)
(* is only stored and shown (messages, labels) is a string.                *)
(***************************************************************************)
EXTENDS Integers, Sequences, FiniteSets, TLC

VARIABLES
    controller, \* the wallet-check controller wired on the page
    walletInput,\* the text of #walletAddress, a name of InputText
    ui,         \* the regions and controls of the page, and currentState
    calls,      \* the checkWalletStats calls that issued a request, in order
    fields,     \* which call's payload the display fields show, and the calls in
                \* the order their count-ups were started
    timers,     \* the pending debounce timer and the throttle flag
    ev,         \* history: the handler that ran last and what it did
    addrIn,     \* the argument handed to an address validator
    addrOut,    \* what the validator answered
    taskIn,     \* the arguments of getTaskProgress: [key, value]
    taskOut,    \* the record getTaskProgress returned
    impl,       \* the renderer of the page: the displayResults of v2.0, v4.0 or v2.1
    page,       \* the display fields the renderer writes
    anims,      \* the running count-up animations, in the order they were started
    barTimers,  \* the pending 500 ms timers of the level progress bar
    shown,      \* history: the number of renders and the payload rendered last
    lb,         \* LeaderboardApp: its state object and the regions it shows
    lbEv,       \* history: the LeaderboardApp method that ran last and what it did
    levelIn,    \* two point totals whose level is asked
    levelOut,   \* the levels derived for them
    pagesIn,    \* the number of pages of a leaderboard
    pagesOut,   \* the page-number controls rendered for it
    debounced   \* a function PerformanceUtils.debounce returned: the clock, its
                \* timers, and the history of its calls and of the calls of func

addrVars == <<addrIn, addrOut>>
taskVars == <<taskIn, taskOut>>
ctrlVars == <<controller, walletInput, ui, calls, fields, timers, ev>>
renderVars == <<impl, page, anims, barTimers, shown>>
lbVars == <<lb, lbEv>>
derivedVars == <<levelIn, levelOut, pagesIn, pagesOut>>
debounceVars == <<debounced>>
vars == <<ctrlVars, addrVars, taskVars, renderVars, lbVars, derivedVars, debounceVars>>

\* The variables each group of actions leaves alone.
othersOfCtrl == <<addrVars, taskVars, renderVars, lbVars, derivedVars, debounceVars>>
othersOfAddr == <<ctrlVars, taskVars, renderVars, lbVars, derivedVars, debounceVars>>
othersOfTask == <<ctrlVars, addrVars, renderVars, lbVars, derivedVars, debounceVars>>
othersOfRender == <<ctrlVars, addrVars, taskVars, lbVars, derivedVars, debounceVars>>
othersOfLb == <<ctrlVars, addrVars, taskVars, renderVars, derivedVars, debounceVars>>
othersOfDebounce == <<ctrlVars, addrVars, taskVars, renderVars, lbVars, derivedVars>>
othersOfDerived == <<ctrlVars, addrVars, taskVars, renderVars, lbVars, debounceVars>>

----------------------------------------------------------------------------
(* Bounds of the model *)

\* Sample address bodies are AddrHexLen - LenSlack .. AddrHexLen + LenSlack long.
LenSlack == 1
\* getTaskProgress is evaluated on the counts 0 .. MaxCount (past the cap 91).
MaxCount == 93
\* At most MaxCalls check-wallet requests are issued in one behaviour.
MaxCalls == 2
\* At most MaxHideTimers auto-hide timers of showError are pending at a time.
MaxHideTimers == 2
\* Payloads report the levels 0 .. MaxLevel + LevelSlack.
LevelSlack == 2
\* At most MaxRenders payloads are rendered in one behaviour.
MaxRenders == 2
\* The loads of the leaderboard that succeed.
MaxLoads == 2
\* Leaderboards have 0 .. MaxPages pages.
MaxPages == 12
\* The wait of a debounced function, in ticks of the clock.
WaitTicks == 2
\* The clock of a debounced function runs up to MaxTicks.
MaxTicks == 6
\* A debounced function is called at most MaxDebounceCalls times.
MaxDebounceCalls == 3

----------------------------------------------------------------------------
(* Text helpers *)

Min(a, b) == IF a <= b THEN a ELSE b

Rep(c, n) == [i \in 1..n |-> c]

WhiteSpace == {" "}

RECURSIVE TrimLeft(_)
TrimLeft(s) == IF s # <<>> /\ Head(s) \in WhiteSpace THEN TrimLeft(Tail(s)) ELSE s

RECURSIVE TrimRight(_)
TrimRight(s) ==
    IF s # <<>> /\ s[Len(s)] \in WhiteSpace THEN TrimRight(SubSeq(s, 1, Len(s) - 1)) ELSE s

\* String.prototype.trim
Trim(s) == TrimRight(TrimLeft(s))

UpperToLower ==
    ("A" :> "a") @@ ("B" :> "b") @@ ("C" :> "c") @@ ("D" :> "d") @@ ("E" :> "e")
    @@ ("F" :> "f") @@ ("G" :> "g") @@ ("X" :> "x")

\* String.prototype.toLowerCase, on the letters the samples use
ToLowerCase(s) ==
    [i \in DOMAIN s |-> IF s[i] \in DOMAIN UpperToLower THEN UpperToLower[s[i]] ELSE s[i]]

Digits == {"0", "1", "2", "3", "4", "5", "6", "7", "8", "9"}
HexLower == Digits \cup {"a", "b", "c", "d", "e", "f"}
HexAny == HexLower \cup {"A", "B", "C", "D", "E", "F"}

----------------------------------------------------------------------------
(* Address validators *)

\* {40} of /^0x[a-fA-F0-9]{40}$/
AddrHexLen == 40
\* sanitized.length !== 42
AddrLen == 42
\* .substring(0, 100)
SanitizeLimit == 100

\* /^0x[class]{40}$/.test(s): the whole text is 0x and AddrHexLen characters of class
RegexAddress(s, class) ==
    /\ Len(s) = 2 + AddrHexLen
    /\ s[1] = "0"
    /\ s[2] = "x"
    /\ \A i \in 3..Len(s) : s[i] \in class

\* Utils.isValidAddress
isValidAddress(address) == RegexAddress(address, HexAny)

DangerousChars == {"<", ">", "'", "\"", "&"}

\* SecurityValidator.sanitizeInput, of a string
sanitizeInput(input) ==
    LET trimmed == Trim(input)
        kept == SelectSeq(trimmed, LAMBDA c : c \notin DangerousChars)
    IN  SubSeq(kept, 1, Min(Len(kept), SanitizeLimit))

StartsWith0x(s) == Len(s) >= 2 /\ s[1] = "0" /\ s[2] = "x"

\* SecurityValidator.validateEthereumAddress: the sanitized address it returns, or
\* the message of the ValidationError it throws.
validateEthereumAddress(address) ==
    IF address = <<>>
    THEN [ok |-> FALSE, value |-> <<>>, error |-> "Address must be a string"]
    ELSE LET sanitized == ToLowerCase(sanitizeInput(address))
         IN  IF ~StartsWith0x(sanitized)
             THEN [ok |-> FALSE, value |-> <<>>, error |-> "Address must start with 0x"]
             ELSE IF Len(sanitized) # AddrLen
             THEN [ok |-> FALSE, value |-> <<>>,
                   error |-> "Address must be 42 characters long"]
             ELSE IF ~RegexAddress(sanitized, HexLower)
             THEN [ok |-> FALSE, value |-> <<>>,
                   error |-> "Address contains invalid characters"]
             ELSE [ok |-> TRUE, value |-> sanitized, error |-> ""]

(* Sample inputs: a prefix, a body of hexadecimal or other characters of a
   length around AddrHexLen, and a decoration around or inside it. *)
Prefixes == {<<"0", "x">>, <<"0", "X">>, <<"1", "x">>, <<>>}
Fills == {"lower", "upper", "digit", "mixed", "nonhex"}
Decorations == {"none", "lead", "trail", "tagged", "amp"}
BodyLens == {n \in 1..(AddrHexLen + LenSlack) : n >= AddrHexLen - LenSlack}

Fill(f, n) ==
    CASE f = "lower" -> Rep("a", n)
      [] f = "upper" -> Rep("F", n)
      [] f = "digit" -> Rep("9", n)
      [] f = "mixed" -> [i \in 1..n |-> <<"3", "c", "E">>[(i % 3) + 1]]
      [] f = "nonhex" -> Rep("a", n - 1) \o <<"g">>

Decorate(s, d) ==
    CASE d = "none" -> s
      [] d = "lead" -> <<" ">> \o s
      [] d = "trail" -> s \o <<" ">>
      [] d = "tagged" -> SubSeq(s, 1, Min(2, Len(s))) \o <<"<">> \o SubSeq(s, 3, Len(s))
      [] d = "amp" -> s \o <<"&">>

AddrSamples ==
    {<<>>} \cup
    {Decorate(p \o Fill(f, n), d) : p \in Prefixes, f \in Fills, n \in BodyLens,
                                    d \in Decorations}

NoAnswer == [fn |-> "none", accepted |-> FALSE, error |-> ""]

AddrInit ==
    /\ addrIn \in AddrSamples
    /\ addrOut = NoAnswer

AddrIdle ==
    /\ addrIn = <<>>
    /\ addrOut = NoAnswer

\* Utils.isValidAddress(addrIn)
RunIsValidAddress ==
    /\ addrOut.fn = "none"
    /\ addrOut' = [fn |-> "isValidAddress", accepted |-> isValidAddress(addrIn),
                   error |-> ""]
    /\ UNCHANGED <<addrIn, othersOfAddr>>

\* SecurityValidator.validateEthereumAddress(addrIn)
RunValidateEthereumAddress ==
    /\ addrOut.fn = "none"
    /\ LET r == validateEthereumAddress(addrIn)
       IN  addrOut' = [fn |-> "validateEthereumAddress", accepted |-> r.ok,
                       error |-> r.error]
    /\ UNCHANGED <<addrIn, othersOfAddr>>

----------------------------------------------------------------------------
(* Task-progress evaluator *)

\* TASK_LIMITS
TASK_LIMITS ==
    [send_count |-> 91, swap_count |-> 91, lp_count |-> 91, faroswap_swaps |-> 91,
     faroswap_lp |-> 91, mint_domain |-> 91, mint_nft |-> 1, primuslabs_send |-> 91,
     autostaking |-> 91, lend_borrow |-> 91, r2_swap |-> 91, r2_earn |-> 91,
     spout |-> 91, bitverse |-> 91, brokex |-> 91, aquaflux |-> 1]

\* TASK_LIMITS[taskKey] || 91
DefaultTaskLimit == 91

\* The keys of the cap table and one key it does not hold, which stands for
\* every unmapped task identifier (a name that Object.prototype does not define).
TaskKeys == DOMAIN TASK_LIMITS \cup {"unmapped_task"}

DigitChar == <<"0", "1", "2", "3", "4", "5", "6", "7", "8", "9">>

\* `${n}` of a non-negative integer
RECURSIVE NatToStr(_)
NatToStr(n) ==
    IF n < 10 THEN <<DigitChar[n + 1]>>
    ELSE NatToStr(n \div 10) \o <<DigitChar[(n % 10) + 1]>>

MAXED == <<"M", "A", "X", "E", "D">>

\* currentValue >= maxValue, mutated to a strict comparison
isMaxedStrict(currentValue, maxValue) == currentValue > maxValue

\* const isMaxed = currentValue >= maxValue
isMaxedOf(currentValue, maxValue) == currentValue >= maxValue

\* The cap looked up without a default for a key the table does not hold
taskLimitNoDefault(taskKey) ==
    IF taskKey \in DOMAIN TASK_LIMITS THEN TASK_LIMITS[taskKey] ELSE 1

\* const maxValue = TASK_LIMITS[taskKey] || 91
taskLimit(taskKey) ==
    IF taskKey \in DOMAIN TASK_LIMITS /\ TASK_LIMITS[taskKey] # 0
    THEN TASK_LIMITS[taskKey]
    ELSE DefaultTaskLimit

\* TaskProgress.getTaskProgress.  progress = Math.min((currentValue / maxValue) * 100, 100)
\* is the exact fraction progressNum / progressDen.
getTaskProgress(taskKey, currentValue) ==
    LET maxValue == taskLimit(taskKey)
        isMaxed == isMaxedOf(currentValue, maxValue)
    IN  [current |-> currentValue,
         max |-> maxValue,
         progressNum |-> Min(currentValue * 100, 100 * maxValue),
         progressDen |-> maxValue,
         isMaxed |-> isMaxed,
         progressText |-> IF isMaxed THEN "Max points achieved!"
                          ELSE "Progress to max points",
         valueText |-> IF isMaxed THEN MAXED
                       ELSE NatToStr(currentValue) \o <<"/">> \o NatToStr(maxValue)]

NoProgress ==
    [current |-> 0, max |-> 0, progressNum |-> 0, progressDen |-> 0, isMaxed |-> FALSE,
     progressText |-> "", valueText |-> <<>>]

TaskInit ==
    /\ taskIn \in [key : TaskKeys, value : 0..MaxCount]
    /\ taskOut = NoProgress

TaskIdle ==
    /\ taskIn = [key |-> "send_count", value |-> 0]
    /\ taskOut = NoProgress

\* TaskProgress.getTaskProgress(taskIn.key, taskIn.value)
EvalTaskProgress ==
    /\ taskOut = NoProgress
    /\ taskOut' = getTaskProgress(taskIn.key, taskIn.value)
    /\ UNCHANGED <<taskIn, othersOfTask>>

----------------------------------------------------------------------------
(* The page and the check-wallet endpoint, as both controllers see them *)


\* a || b of two strings
Or(a, b) == IF a # "" THEN a ELSE b

\* What the user can have typed into #walletAddress.
InputText ==
    [empty |-> <<>>,
     valid |-> <<"0", "x">> \o Rep("a", AddrHexLen),
     short |-> <<"0", "x">> \o Rep("a", AddrHexLen - 1),
     tagged |-> <<"0", "x", "<">> \o Rep("a", AddrHexLen)]
InputNames == DOMAIN InputText

(* What the endpoint can answer to one request: the fetch rejects (netfail,
   with the message of the TypeError), the body is no JSON (badjson), or it is
   a JSON object (json) with a success flag, an error message ("" when it
   carries none) and the payload fields it holds. *)
HttpStatuses == {200, 429, 500}
FetchErrorMessages == {"Failed to fetch", "Load failed", ""}
ServerMessages == {"", "Wallet not found"}
Payloads ==
    {[points |-> TRUE, level |-> TRUE, member |-> TRUE],
     [points |-> TRUE, level |-> TRUE, member |-> FALSE],
     [points |-> FALSE, level |-> TRUE, member |-> TRUE],
     [points |-> FALSE, level |-> FALSE, member |-> FALSE]}
NoPayload == [points |-> FALSE, level |-> FALSE, member |-> FALSE]

Responses ==
    {[kind |-> "netfail", status |-> 0, errmsg |-> m, success |-> "absent",
      error |-> "", payload |-> NoPayload] : m \in FetchErrorMessages}
    \cup
    {[kind |-> "badjson", status |-> s, errmsg |-> "", success |-> "absent",
      error |-> "", payload |-> NoPayload] : s \in HttpStatuses}
    \cup
    {[kind |-> "json", status |-> s, errmsg |-> "", success |-> f, error |-> e,
      payload |-> NoPayload] : s \in HttpStatuses, f \in {"false", "absent"},
                               e \in ServerMessages}
    \cup
    {[kind |-> "json", status |-> s, errmsg |-> "", success |-> "true", error |-> "",
      payload |-> p] : s \in HttpStatuses, p \in Payloads}

\* response.ok
ResponseOk(r) == r.status >= 200 /\ r.status <= 299

\* The payload holds the mandatory total_points and current_level.
PayloadValid(r) == r.payload.points /\ r.payload.level

(* The history of the handler that ran last: op is "check" for a run of
   checkWalletStats up to its first await (call: the request it issued, 0 for
   none), "ignored" for a submit dropped by the guard, "response" and "shown"
   for its continuations, "autohide" for the timer of showError, "none" for
   every other handler; completed: the call
   returned in this step; outcome: how the request ended; msg: the error text
   the server sent; shows: the calls of showError in this step. *)
NoEv ==
    [op |-> "none", call |-> 0, completed |-> FALSE, outcome |-> "none", msg |-> "",
     shows |-> 0]

\* How a response ends a call, for the history.
OutcomeOf(r) ==
    IF r.kind = "netfail" THEN "netfail"
    ELSE IF ~ResponseOk(r) THEN "httperr"
    ELSE IF r.kind = "badjson" THEN "badbody"
    ELSE IF r.success = "absent" THEN "badbody"
    ELSE IF r.success = "false" THEN "appfail"
    ELSE "ok"

NewCall(input) == [pc |-> "fetching", from |-> input, anim |-> FALSE, valid |-> FALSE]

\* The calls whose count-up animation still has frames to run.
Animating == {c \in DOMAIN calls : calls[c].anim}
InFlight == {c \in DOMAIN calls : calls[c].pc = "fetching"}

\* The calls whose count-ups run, in the order requestAnimationFrame got their
\* callbacks.
AnimOrder == SelectSeq(fields.order, LAMBDA c : calls[c].anim)

CtrlInit ==
    /\ controller \in {"PharosAPI", "UIStateManager"}
    /\ walletInput = "empty"
    /\ ui = [loading |-> FALSE, error |-> FALSE, errorText |-> "", results |-> FALSE,
             disabled |-> FALSE, focused |-> FALSE, state |-> "initial",
             hideTimers |-> 0]
    /\ calls = <<>>
    /\ fields = [numBy |-> 0, textBy |-> 0, order |-> <<>>]
    /\ timers = [submit |-> FALSE, throttle |-> FALSE]
    /\ ev = NoEv

CtrlIdle ==
    /\ controller = "PharosAPI"
    /\ walletInput = "empty"
    /\ ui = [loading |-> FALSE, error |-> FALSE, errorText |-> "", results |-> FALSE,
             disabled |-> FALSE, focused |-> FALSE, state |-> "initial",
             hideTimers |-> 0]
    /\ calls = <<>>
    /\ fields = [numBy |-> 0, textBy |-> 0, order |-> <<>>]
    /\ timers = [submit |-> FALSE, throttle |-> FALSE]
    /\ ev = NoEv

----------------------------------------------------------------------------
(* PharosAPI, UIState and EventHandlers *)

\* UIState.showError
UIState_showError(d, message) ==
    [d EXCEPT !.errorText = message, !.error = TRUE, !.loading = FALSE,
              !.results = FALSE]

\* UIState.hideError
UIState_hideError(d) == [d EXCEPT !.error = FALSE]

\* UIState.showLoading
UIState_showLoading(d) ==
    [UIState_hideError([d EXCEPT !.loading = TRUE, !.results = FALSE])
        EXCEPT !.disabled = TRUE]

\* UIState.hideLoading
UIState_hideLoading(d) == [d EXCEPT !.loading = FALSE, !.disabled = FALSE]

\* `HTTP error! status: ${response.status}`
HttpErrorMsg(status) ==
    CASE status = 429 -> "HTTP error! status: 429"
      [] status = 500 -> "HTTP error! status: 500"
      [] OTHER -> "HTTP error! status: other"

(* The try block of PharosAPI.checkWalletStats after the request was issued:
   whether it throws, with which message, and whether displayResults ran.
   The page holds the elements displayResults writes, so the rendering itself
   does not throw. *)
PharosAPI_try(r) ==
    IF r.kind = "netfail"
    THEN [thrown |-> TRUE, message |-> r.errmsg, rendered |-> FALSE]
    ELSE IF r.kind = "badjson"
    THEN [thrown |-> TRUE, message |-> "Unexpected token in JSON", rendered |-> FALSE]
    ELSE IF ~ResponseOk(r)
    THEN [thrown |-> TRUE, message |-> Or(r.error, HttpErrorMsg(r.status)),
          rendered |-> FALSE]
    ELSE IF r.success # "true"
    THEN [thrown |-> TRUE, message |-> Or(r.error, "Failed to fetch wallet statistics"),
          rendered |-> FALSE]
    ELSE [thrown |-> FALSE, message |-> "", rendered |-> TRUE]

\* PharosAPI.displayResults, on the regions
PharosAPI_displayResults(d) == [UIState_hideError(d) EXCEPT !.results = TRUE]

\* catch (err) { UIState.showError(err.message || '...') }
PharosAPI_catch(d, t) ==
    IF t.thrown
    THEN UIState_showError(d, Or(t.message,
                                 "Failed to fetch wallet statistics. Please try again."))
    ELSE d

\* PharosAPI.checkWalletStats up to its first await
PharosAPI_checkWalletStats ==
    /\ LET address == Trim(InputText[walletInput])
           e == [NoEv EXCEPT !.op = "check"]
       IN  IF address = <<>>
           THEN /\ ui' = UIState_showError(ui, "Please enter a wallet address")
                /\ calls' = calls
                /\ ev' = [e EXCEPT !.shows = 1]
           ELSE IF ~isValidAddress(address)
           THEN /\ ui' = UIState_showError(ui, "Please enter a valid Ethereum address")
                /\ calls' = calls
                /\ ev' = [e EXCEPT !.shows = 1]
           ELSE /\ Len(calls) < MaxCalls
                /\ ui' = UIState_showLoading(ui)
                /\ calls' = Append(calls, NewCall(walletInput))
                /\ ev' = [e EXCEPT !.call = Len(calls) + 1]
    /\ UNCHANGED <<controller, walletInput, fields, timers, othersOfCtrl>>

\* click on #checkButton: a disabled button dispatches no click
ApiClick ==
    /\ controller = "PharosAPI"
    /\ ~ui.disabled
    /\ PharosAPI_checkWalletStats

\* keypress of Enter in #walletAddress
ApiEnter ==
    /\ controller = "PharosAPI"
    /\ PharosAPI_checkWalletStats

\* input event of #walletAddress: the user changed the text
ApiInput(s) ==
    /\ controller = "PharosAPI"
    /\ s # walletInput
    /\ walletInput' = s
    /\ ui' = UIState_hideError(ui)
    /\ ev' = NoEv
    /\ UNCHANGED <<controller, calls, fields, timers, othersOfCtrl>>

\* PharosAPI.checkWalletStats from the answer of fetch to its end
ApiResponse(c, r) ==
    /\ controller = "PharosAPI"
    /\ c \in InFlight
    /\ LET t == PharosAPI_try(r)
           d1 == IF t.rendered THEN PharosAPI_displayResults(ui) ELSE ui
           d2 == PharosAPI_catch(d1, t)
       IN  /\ ui' = UIState_hideLoading(d2)
           /\ calls' = [calls EXCEPT ![c] = [@ EXCEPT !.pc = "done", !.anim = t.rendered,
                                                     !.valid = PayloadValid(r)]]
           /\ fields' = IF t.rendered
                        THEN [fields EXCEPT !.textBy = c, !.order = Append(@, c)]
                        ELSE fields
           /\ ev' = [NoEv EXCEPT !.op = "response", !.call = c, !.completed = TRUE,
                                 !.outcome = OutcomeOf(r), !.msg = r.error,
                                 !.shows = IF t.thrown THEN 1 ELSE 0]
    /\ UNCHANGED <<controller, walletInput, timers, othersOfCtrl>>

(* One animation frame: the update callbacks of the running count-ups run in
   the order they were registered, so the fields end with the value of the
   call rendered last; fin, the one rendered first, may have reached its
   duration. *)
ApiAnimFrame(fin) ==
    /\ controller = "PharosAPI"
    /\ Animating # {}
    /\ fin \in {0, Head(AnimOrder)}
    /\ fields' = [fields EXCEPT !.numBy = AnimOrder[Len(AnimOrder)]]
    /\ calls' = IF fin = 0 THEN calls ELSE [calls EXCEPT ![fin].anim = FALSE]
    /\ ev' = NoEv
    /\ UNCHANGED <<controller, walletInput, ui, timers, othersOfCtrl>>

----------------------------------------------------------------------------
(* UIStateManager and APIService *)

\* UIStateManager.hideLoading
UIStateManager_hideLoading(d) ==
    [d EXCEPT !.state = "idle", !.disabled = FALSE, !.loading = FALSE]

\* UIStateManager.hideError
UIStateManager_hideErrorToIdle(d) == [d EXCEPT !.error = FALSE, !.state = "idle"]
UIStateManager_hideError(d) ==
    [d EXCEPT !.error = FALSE, !.state = IF @ = "error" THEN "idle" ELSE @]

\* UIStateManager.showLoading
UIStateManager_showLoading(d) ==
    UIStateManager_hideError(
        [d EXCEPT !.state = "loading", !.disabled = TRUE, !.loading = TRUE,
                  !.results = FALSE])

\* walletInput.focus(): an input that gains the focus runs its focus listener,
\* which hides the error; an input that has it already gets no event.
FocusWalletInput(d) ==
    IF d.focused THEN d ELSE UIStateManager_hideError([d EXCEPT !.focused = TRUE])

\* SecurityValidator.sanitizeInput of a message of UIStateManager: none of them
\* holds a stripped character, blank ends or more than SanitizeLimit characters.
SanitizeMessage(message) == message

\* UIStateManager.showError
UIStateManager_showError(d, message) ==
    LET d1 == UIStateManager_hideLoading([d EXCEPT !.state = "error"])
        d2 == [d1 EXCEPT !.errorText = SanitizeMessage(message), !.error = TRUE,
                         !.hideTimers = @ + 1]
    IN  FocusWalletInput(d2)

\* UIStateManager.displayResults up to await Promise.all(animations)
UIStateManager_displayResults(d) ==
    [UIStateManager_hideError(UIStateManager_hideLoading(d)) EXCEPT !.state = "results"]

\* error.name === 'TypeError' && error.message.includes('fetch')
MentionsFetch(m) == m = "Failed to fetch"

(* APIService.makeRequest after the request was issued, and the test of
   result.success in checkWalletStats: the class and status of the error that
   reaches the catch block of checkWalletStats, or none. *)
APIService_makeRequest(r) ==
    IF r.kind = "netfail"
    THEN IF MentionsFetch(r.errmsg)
         THEN [thrown |-> TRUE, class |-> "NetworkError", status |-> 0]
         ELSE [thrown |-> TRUE, class |-> "Error", status |-> 0]
    ELSE IF ~ResponseOk(r)
    THEN [thrown |-> TRUE, class |-> "NetworkError", status |-> r.status]
    ELSE IF r.kind = "badjson" \/ r.success = "absent"
    THEN [thrown |-> TRUE, class |-> "Error", status |-> 0]
    ELSE IF r.success = "false"
    THEN [thrown |-> TRUE, class |-> "Error", status |-> 0]
    ELSE [thrown |-> FALSE, class |-> "", status |-> 0]

\* The message the catch block of UIStateManager.checkWalletStats shows
UIStateManager_errorMessage(class, status, message) ==
    IF class = "ValidationError" THEN message
    ELSE IF class = "NetworkError"
    THEN IF status = 429
         THEN "Too many requests. Please wait a moment and try again."
         ELSE "Network error. Please check your connection and try again."
    ELSE "Failed to fetch wallet statistics. Please try again."

\* submit of #walletForm (the button, or Enter in the input): the debounced
\* handler restarts its timer
UiSubmit ==
    /\ controller = "UIStateManager"
    /\ timers' = [timers EXCEPT !.submit = TRUE]
    /\ ev' = NoEv
    /\ UNCHANGED <<controller, walletInput, ui, calls, fields, othersOfCtrl>>

(* The debounce timer fires: handleWalletSubmit, and checkWalletStats up to
   its first await.  An address that validateEthereumAddress rejects makes
   checkWallet reject before any request, and the catch block runs in the
   same task. *)
UiHandleWalletSubmit ==
    /\ controller = "UIStateManager"
    /\ timers.submit
    /\ timers' = [timers EXCEPT !.submit = FALSE]
    /\ LET walletAddress == Trim(InputText[walletInput])
           v == validateEthereumAddress(walletAddress)
           e == [NoEv EXCEPT !.op = "check"]
       IN  IF ui.state = "loading"
           THEN /\ ui' = ui
                /\ calls' = calls
                /\ ev' = [NoEv EXCEPT !.op = "ignored"]
           ELSE IF walletAddress = <<>>
           THEN /\ ui.hideTimers < MaxHideTimers
                /\ ui' = FocusWalletInput(
                            UIStateManager_showError(ui, "Please enter a wallet address"))
                /\ calls' = calls
                /\ ev' = [e EXCEPT !.shows = 1]
           ELSE IF ~v.ok
           THEN /\ ui.hideTimers < MaxHideTimers
                /\ ui' = UIStateManager_showError(
                            UIStateManager_showLoading(ui),
                            UIStateManager_errorMessage("ValidationError", 0, v.error))
                /\ calls' = calls
                /\ ev' = [e EXCEPT !.shows = 1, !.completed = TRUE,
                                   !.outcome = "invalid"]
           ELSE /\ Len(calls) < MaxCalls
                /\ ui' = UIStateManager_showLoading(ui)
                /\ calls' = Append(calls, NewCall(walletInput))
                /\ ev' = [e EXCEPT !.call = Len(calls) + 1]
    /\ UNCHANGED <<controller, walletInput, fields, othersOfCtrl>>

(* The answer to the request of call c: the rest of makeRequest and
   checkWalletStats up to its end, or to the await in displayResults. *)
UiResponse(c, r) ==
    /\ controller = "UIStateManager"
    /\ c \in InFlight
    /\ LET t == APIService_makeRequest(r)
       IN  IF t.thrown
           THEN /\ ui.hideTimers < MaxHideTimers
                /\ ui' = UIStateManager_showError(
                            ui, UIStateManager_errorMessage(t.class, t.status, ""))
                /\ calls' = [calls EXCEPT ![c] = [@ EXCEPT !.pc = "done"]]
                /\ fields' = fields
                /\ ev' = [NoEv EXCEPT !.op = "response", !.call = c, !.completed = TRUE,
                                      !.outcome = OutcomeOf(r), !.msg = r.error,
                                      !.shows = 1]
           ELSE /\ ui' = UIStateManager_displayResults(ui)
                /\ calls' = [calls EXCEPT ![c] = [@ EXCEPT !.pc = "animating",
                                                          !.anim = TRUE,
                                                          !.valid = PayloadValid(r)]]
                /\ fields' = [fields EXCEPT
                                 !.textBy = IF r.payload.member THEN c ELSE @,
                                 !.order = Append(@, c)]
                /\ ev' = [NoEv EXCEPT !.op = "response", !.call = c, !.outcome = "ok"]
    /\ UNCHANGED <<controller, walletInput, timers, othersOfCtrl>>

(* One animation frame, as ApiAnimFrame; when the count-ups of call fin have
   all resolved, its displayResults goes on past the await and shows the
   results region, and its checkWalletStats returns. *)
UiAnimFrame(fin) ==
    /\ controller = "UIStateManager"
    /\ Animating # {}
    /\ fin \in {0, Head(AnimOrder)}
    /\ fields' = [fields EXCEPT !.numBy = AnimOrder[Len(AnimOrder)]]
    /\ IF fin = 0
       THEN /\ calls' = calls
            /\ ui' = ui
            /\ ev' = NoEv
       ELSE /\ calls' = [calls EXCEPT ![fin] = [@ EXCEPT !.pc = "done", !.anim = FALSE]]
            /\ ui' = [ui EXCEPT !.results = TRUE]
            /\ ev' = [NoEv EXCEPT !.op = "shown", !.call = fin, !.completed = TRUE,
                                  !.outcome = "ok"]
    /\ UNCHANGED <<controller, walletInput, timers, othersOfCtrl>>

\* The user puts the focus into #walletAddress: the focus listener
UiFocusInput ==
    /\ controller = "UIStateManager"
    /\ ~ui.focused
    /\ ui' = FocusWalletInput(ui)
    /\ ev' = NoEv
    /\ UNCHANGED <<controller, walletInput, calls, fields, timers, othersOfCtrl>>

\* The focus leaves #walletAddress (a click on the button or elsewhere)
UiBlur ==
    /\ controller = "UIStateManager"
    /\ ui.focused
    /\ ui' = [ui EXCEPT !.focused = FALSE]
    /\ ev' = NoEv
    /\ UNCHANGED <<controller, walletInput, calls, fields, timers, othersOfCtrl>>

\* UIStateManager.handleInputChange
UIStateManager_handleInputChange(d, text) ==
    LET input == Trim(text)
    IN  IF Len(input) > 0
        THEN IF validateEthereumAddress(input).ok THEN UIStateManager_hideError(d) ELSE d
        ELSE UIStateManager_hideError(d)

\* input event of #walletAddress, through PerformanceUtils.throttle
UiInput(s) ==
    /\ controller = "UIStateManager"
    /\ ui.focused
    /\ s # walletInput
    /\ walletInput' = s
    /\ IF timers.throttle
       THEN /\ ui' = ui
            /\ timers' = timers
       ELSE /\ ui' = UIStateManager_handleInputChange(ui, InputText[s])
            /\ timers' = [timers EXCEPT !.throttle = TRUE]
    /\ ev' = NoEv
    /\ UNCHANGED <<controller, calls, fields, othersOfCtrl>>

\* setTimeout(() => inThrottle = false, limit)
UiThrottleReset ==
    /\ controller = "UIStateManager"
    /\ timers.throttle
    /\ timers' = [timers EXCEPT !.throttle = FALSE]
    /\ ev' = NoEv
    /\ UNCHANGED <<controller, walletInput, ui, calls, fields, othersOfCtrl>>

(* setTimeout(() => { this.hideError(); }, 10000) of showError.  No timer is
   ever cleared and all have the same delay, so the pending timers fire in
   the order of their calls of showError: the one that fires is the oldest,
   and it is the timer of the latest showError only when no other is left. *)
UiHideErrorTimer ==
    /\ controller = "UIStateManager"
    /\ ui.hideTimers > 0
    /\ ui' = UIStateManager_hideError([ui EXCEPT !.hideTimers = @ - 1])
    /\ ev' = [NoEv EXCEPT !.op = "autohide"]
    /\ UNCHANGED <<controller, walletInput, calls, fields, timers, othersOfCtrl>>

----------------------------------------------------------------------------
(* The result renderers: level progress, level, rank, population, membership *)

\* Math.max of two numbers
Max2(a, b) == IF a >= b THEN a ELSE b

\* const maxLevel = 5
MaxLevel == 5
\* levels[nextLevel] || 20001
DefaultNextLevelPoints == 20001
\* data.total_users_count || 270000
DefaultUsersCount == 270000

\* A field of the payload that is absent, and a display field not written yet
Absent == -1
Blank == -1

\* Whether a number of the payload, or its absence, is truthy
Truthy(x) == x # Absent /\ x # 0

\* The three renderers of the file
Impls == {"v2.0", "v4.0", "v2.1"}

\* LevelCalculator.levels of v2.0
LevelCalculator_levels ==
    [l \in 1..5 |->
        CASE l = 1 -> [min |-> 0, max |-> 1000]
          [] l = 2 -> [min |-> 1001, max |-> 3500]
          [] l = 3 -> [min |-> 3501, max |-> 6000]
          [] l = 4 -> [min |-> 6001, max |-> 10000]
          [] l = 5 -> [min |-> 10001, max |-> 20000]]

\* The table with each threshold taken from the max of the level below.
LEVEL_THRESHOLDS_fromMax ==
    [l \in 1..5 |->
        CASE l = 1 -> 0 [] l = 2 -> 1000 [] l = 3 -> 3500 [] l = 4 -> 6000
          [] l = 5 -> 10000]

\* CONFIG.LEVEL_THRESHOLDS of v4.0, LevelCalculator.levels of v2.1
LEVEL_THRESHOLDS ==
    [l \in 1..5 |->
        CASE l = 1 -> 0 [] l = 2 -> 1001 [] l = 3 -> 3501 [] l = 4 -> 6001
          [] l = 5 -> 10001]

\* levels[level] || fallback
ThresholdOr(level, fallback) ==
    IF level \in DOMAIN LEVEL_THRESHOLDS /\ LEVEL_THRESHOLDS[level] # 0
    THEN LEVEL_THRESHOLDS[level]
    ELSE fallback

\* Math.min(data.current_level, maxLevel) with the cap left out
uncappedLevel(level) == level

\* Math.min(data.current_level, maxLevel)
cappedLevel(level) == Min(level, MaxLevel)

(* The width a renderer hands to its 500 ms timer, as the exact fraction
   num / den of a percentage; write: whether a timer is set at all. *)
NoWidth == [write |-> FALSE, num |-> 0, den |-> 1]

\* The level progress of PharosAPI.displayResults of v2.0
LevelBar_v20(level, points) ==
    LET currentLevel == Min(level, 5)
    IN  IF currentLevel \in DOMAIN LevelCalculator_levels
        THEN LET levelData == LevelCalculator_levels[currentLevel]
                 progressInLevel == points - levelData.min
                 pointsForLevel == levelData.max - levelData.min
             IN  [write |-> TRUE,
                  num |-> Max2(0, Min(progressInLevel * 100, 100 * pointsForLevel)),
                  den |-> pointsForLevel]
        ELSE NoWidth

\* percentage and Math.min(percentage, 100) of the timers of v4.0 and v2.1
LevelBarWidth(isMaxLevel, progressInLevel, pointsForLevel) ==
    IF isMaxLevel \/ pointsForLevel <= 0
    THEN [write |-> TRUE, num |-> 100, den |-> 1]
    ELSE [write |-> TRUE,
          num |-> Min(progressInLevel * 100, 100 * pointsForLevel),
          den |-> pointsForLevel]

\* UIStateManager.updateLevelProgress
LevelBar_v40(level, points) ==
    LET currentLevelPoints == ThresholdOr(level, 0)
        nextLevel == Min(level + 1, MaxLevel)
        nextLevelPoints == ThresholdOr(nextLevel, DefaultNextLevelPoints)
        isMaxLevel == level >= MaxLevel
    IN  LevelBarWidth(isMaxLevel, points - currentLevelPoints,
                      nextLevelPoints - currentLevelPoints)

\* LevelCalculator.addPointsNeededInfo of v2.1
LevelBar_v21(level, points) ==
    LET currentLevel == Min(level, 5)
        nextLevel == Min(currentLevel + 1, 5)
        currentLevelPoints == ThresholdOr(currentLevel, 0)
        nextLevelPoints == ThresholdOr(nextLevel, DefaultNextLevelPoints)
        isMaxLevel == currentLevel >= 5
    IN  LevelBarWidth(isMaxLevel, points - currentLevelPoints,
                      nextLevelPoints - currentLevelPoints)

LevelBar(i, level, points) ==
    CASE i = "v2.0" -> LevelBar_v20(level, points)
      [] i = "v4.0" -> LevelBar_v40(level, points)
      [] i = "v2.1" -> LevelBar_v21(level, points)

(* member_since of a payload: absent, a text that is no date, or one of two
   dates, with the whole days from each date to now (the last day begun). *)
MemberSinceValues == {"absent", "garbage", "jan", "feb"}
IsDate(m) == m \in {"jan", "feb"}
WholeDaysSince == [jan |-> 300, feb |-> 270]

\* MemberSinceUtils.formatMemberSince of v2.0
MemberSinceUtils_formatMemberSince(m) ==
    IF IsDate(m) THEN [days |-> WholeDaysSince[m], kind |-> "date", of |-> m]
    ELSE [days |-> 0, kind |-> "unknown", of |-> ""]

\* calculateActiveDays of v4.0 and v2.1: Math.ceil, and NaN for a text that is no date
calculateActiveDays(m) ==
    IF m = "absent" THEN [kind |-> "num", n |-> 0]
    ELSE IF IsDate(m) THEN [kind |-> "num", n |-> WholeDaysSince[m] + 1]
    ELSE [kind |-> "nan", n |-> 0]

\* formatMemberSince of v4.0 and v2.1, called for a truthy member_since only
formatMemberSince(m) ==
    IF IsDate(m) THEN [kind |-> "date", of |-> m] ELSE [kind |-> "invalid", of |-> ""]

(* The payloads rendered: every level with every point count, every rank with
   every population, and every membership value; sends is send_count, the
   count of the first task. *)
LevelSamples == 0..(MaxLevel + LevelSlack)
PointSamples == {0, 500, 1001, 12000, 25000}
RankSamples == {Absent, 0, 42}
UsersSamples == {Absent, 0, 1000}

RenderSamples ==
    {[level |-> l, points |-> p, rank |-> 42, users |-> 1000, member |-> "jan",
      sends |-> 3] :
        l \in LevelSamples, p \in PointSamples}
    \cup
    {[level |-> 2, points |-> 1500, rank |-> r, users |-> u, member |-> "feb",
      sends |-> 7] :
        r \in RankSamples, u \in UsersSamples}
    \cup
    {[level |-> 2, points |-> 1500, rank |-> 42, users |-> 1000, member |-> m,
      sends |-> Absent] :
        m \in MemberSinceValues}

NoData ==
    [level |-> 0, points |-> 0, rank |-> Absent, users |-> Absent, member |-> "absent",
     sends |-> Absent]

\* The frames an animation of 1000 ms takes, and of other durations
FramesPerSecond == 5
Frames(ms) == (ms * FramesPerSecond) \div 1000

\* A count-up started by animateValue or animateRank
Animation(field, start, end, ms, eased, nan) ==
    [field |-> field, start |-> start, end |-> end, dur |-> Frames(ms), elapsed |-> 0,
     eased |-> eased, nan |-> nan]

\* Math.floor(start + range * progress), with the ease-out of DOMUtils.animateValue
AnimationValue(a) ==
    LET e == Min(a.elapsed, a.dur)
        range == a.end - a.start
        d3 == a.dur * a.dur * a.dur
        r3 == (a.dur - e) * (a.dur - e) * (a.dur - e)
    IN  IF a.eased THEN a.start + ((range * (d3 - r3)) \div d3)
        ELSE a.start + ((range * e) \div a.dur)

\* The count-ups displayResults starts, in the order it starts them
Animations_v20(data) ==
    <<Animation("level", 1, cappedLevel(data.level), 1000, FALSE, FALSE)>>
    \o (IF Truthy(data.rank)
        THEN <<Animation("rank", 1, data.rank, 1000, FALSE, FALSE)>> ELSE <<>>)
    \o <<Animation("users", 1, IF Truthy(data.users) THEN data.users ELSE DefaultUsersCount,
                   1000, FALSE, FALSE)>>
    \o <<Animation("days", 0, MemberSinceUtils_formatMemberSince(data.member).days,
                   1000, FALSE, FALSE)>>

Animations_v40(data) ==
    <<Animation("level", 1, cappedLevel(data.level), 1000, TRUE, FALSE)>>
    \o (IF Truthy(data.rank)
        THEN <<Animation("rank", 1, data.rank, 1200, TRUE, FALSE)>> ELSE <<>>)
    \o <<Animation("users", 1, IF Truthy(data.users) THEN data.users ELSE DefaultUsersCount,
                   1000, TRUE, FALSE)>>
    \o <<Animation("days", 0, calculateActiveDays(data.member).n, 800, TRUE,
                   calculateActiveDays(data.member).kind = "nan")>>

Animations_v21(data) ==
    <<Animation("level", 1, cappedLevel(data.level), 1000, FALSE, FALSE)>>
    \o (IF Truthy(data.rank)
        THEN <<Animation("rank", 1, data.rank, 1000, FALSE, FALSE)>> ELSE <<>>)
    \o <<Animation("users", 1, IF Truthy(data.users) THEN data.users ELSE DefaultUsersCount,
                   1000, FALSE, FALSE)>>
    \o <<Animation("days", 0, calculateActiveDays(data.member).n, 1000, FALSE,
                   calculateActiveDays(data.member).kind = "nan")>>

(* The durations 1000 + Math.random() * 500 of updateTaskCounts may take, in
   ms: the shortest, and one near the longest. *)
TaskDurations == {1000, 1400}

\* data.send_count || 0
SendCount(data) == IF Truthy(data.sends) THEN data.sends ELSE 0

(* The count-up of the first task count: TaskProgress.updateTaskWithProgress
   of v2.0 and v2.1 starts it with the default duration of Utils.animateValue,
   updateTaskCounts of v4.0 with the duration ms it draws. *)
TaskAnimations(i, data, ms) ==
    IF i = "v4.0"
    THEN <<Animation("sends", 0, SendCount(data), ms, TRUE, FALSE)>>
    ELSE <<Animation("sends", 0, SendCount(data), 1000, FALSE, FALSE)>>

AnimationsOf(i, data) ==
    CASE i = "v2.0" -> Animations_v20(data)
      [] i = "v4.0" -> Animations_v40(data)
      [] i = "v2.1" -> Animations_v21(data)

\* The texts displayResults writes itself: 'Unranked' and the membership date
TextsOf(i, data, p) ==
    LET p1 == IF Truthy(data.rank) THEN p
              ELSE [p EXCEPT !.rank = [kind |-> "unranked", n |-> 0]]
    IN  IF i = "v2.0"
        THEN LET memberData == MemberSinceUtils_formatMemberSince(data.member)
             IN  [p1 EXCEPT !.member = [kind |-> memberData.kind, of |-> memberData.of]]
        ELSE IF data.member # "absent"
        THEN [p1 EXCEPT !.member = formatMemberSince(data.member)]
        ELSE p1

\* One frame of one count-up: update(currentTime)
WriteFrame(p, a) ==
    CASE a.field = "level" -> [p EXCEPT !.level = AnimationValue(a)]
      [] a.field = "users" -> [p EXCEPT !.users = AnimationValue(a)]
      [] a.field = "sends" -> [p EXCEPT !.sends = AnimationValue(a)]
      [] a.field = "rank" -> [p EXCEPT !.rank = [kind |-> "rank", n |-> AnimationValue(a)]]
      [] a.field = "days" ->
            [p EXCEPT !.days = IF a.nan THEN [kind |-> "nan", n |-> 0]
                               ELSE [kind |-> "num", n |-> AnimationValue(a)]]

\* The frames of the count-ups as, in their order, on the page p
RECURSIVE WriteFrames(_, _)
WriteFrames(p, as) ==
    IF as = <<>> THEN p ELSE WriteFrames(WriteFrame(p, Head(as)), Tail(as))

BlankPage ==
    [level |-> Blank, users |-> Blank, sends |-> Blank,
     rank |-> [kind |-> "blank", n |-> 0],
     days |-> [kind |-> "blank", n |-> 0], member |-> [kind |-> "blank", of |-> ""],
     bar |-> [kind |-> "blank", num |-> 0, den |-> 1, level |-> 0, points |-> 0]]

RenderInit ==
    /\ impl \in Impls
    /\ page = BlankPage
    /\ anims = <<>>
    /\ barTimers = <<>>
    /\ shown = [n |-> 0, data |-> NoData]

RenderIdle ==
    /\ impl = "v2.0"
    /\ page = BlankPage
    /\ anims = <<>>
    /\ barTimers = <<>>
    /\ shown = [n |-> 0, data |-> NoData]

\* displayResults(data), of the renderer of the page; ms is the duration
\* updateTaskCounts draws for the count-up of the task count.
DisplayResults(data, ms) ==
    /\ shown.n < MaxRenders
    /\ impl = "v4.0" \/ ms = 1000
    /\ page' = TextsOf(impl, data, page)
    /\ anims' = anims \o AnimationsOf(impl, data) \o TaskAnimations(impl, data, ms)
    /\ barTimers' =
          LET w == LevelBar(impl, data.level, data.points)
          IN  IF w.write
              THEN Append(barTimers, [num |-> w.num, den |-> w.den, level |-> data.level,
                                      points |-> data.points])
              ELSE barTimers
    /\ shown' = [n |-> shown.n + 1, data |-> data]
    /\ UNCHANGED <<impl, othersOfRender>>

\* The 500 ms timer of the level progress bar
LevelBarTimer ==
    /\ barTimers # <<>>
    /\ page' = [page EXCEPT !.bar = [kind |-> "pct", num |-> Head(barTimers).num,
                                     den |-> Head(barTimers).den,
                                     level |-> Head(barTimers).level,
                                     points |-> Head(barTimers).points]]
    /\ barTimers' = Tail(barTimers)
    /\ UNCHANGED <<impl, anims, shown, othersOfRender>>

\* An animation frame, step frame times after the last: every running count-up
\* writes its value, and those that reached their duration stop.
AnimationFrame(step) ==
    /\ anims # <<>>
    /\ LET advanced == [k \in DOMAIN anims |->
                           [anims[k] EXCEPT !.elapsed = Min(@ + step, anims[k].dur)]]
       IN  /\ page' = WriteFrames(page, advanced)
           /\ anims' = SelectSeq(advanced, LAMBDA a : a.elapsed < a.dur)
    /\ UNCHANGED <<impl, barTimers, shown, othersOfRender>>

----------------------------------------------------------------------------
(* LeaderboardApp: the leaderboard of top.html.  Two implementations: the  *)
(* object of v2.0 (and v2.1), which has no pagination method, and the      *)
(* class of v4.0.  The methods are modelled as the operations of the       *)
(* application; in the wiring of v4.0, init() calls setupEventListeners()  *)
(* first, which calls forEach on the single element (or null) DOMUtils.$   *)
(* returns and throws, so that there the methods run only when called on   *)
(* the instance PharosApp keeps in leaderboardApp.                         *)

TOTAL_PAGES == 10

LbImpls == {"object", "class"}

\* The leaderboard arrays of the answers.  An entry is written as the number
\* that identifies its wallet; Ranked(n) has n entries.
Ranked(n) == [i \in 1..n |-> i]
LeaderboardLens == {0, 7, 25, 100, 101}
LeaderboardSamples == {Ranked(n) : n \in LeaderboardLens} \cup {<<3, 1, 2>>}

\* What the request to the statistics endpoint may end with: the HTTP status
\* is ok or not, the body has success set or not, and carries a leaderboard
\* array or none.
LbResponses ==
    {[ok |-> TRUE, success |-> TRUE, present |-> TRUE, leaderboard |-> l] :
        l \in LeaderboardSamples}
    \cup {[ok |-> TRUE, success |-> TRUE, present |-> FALSE, leaderboard |-> <<>>],
          [ok |-> TRUE, success |-> FALSE, present |-> FALSE, leaderboard |-> <<>>],
          [ok |-> FALSE, success |-> FALSE, present |-> FALSE, leaderboard |-> <<>>]}

\* The arguments changePage is called with.
PageArgs == 0..(TOTAL_PAGES + 1)

\* sent: the step has sent a request to the statistics endpoint.
NoLbEv == [op |-> "none", page |-> 0, from |-> 0, received |-> <<>>,
           loaded |-> FALSE, rendered |-> FALSE, sent |-> FALSE]

\* The state object of the constructor, and the regions of the page:
\* #loading has the class show, #tableSection and #errorState are displayed,
\* rows are the rows of the table.  lastUpdated is 0 for null, else the
\* number of the load that set it; updateTimer is 0 for null, else the id
\* setInterval returned (the number of the load that started it); intervals
\* are the ids of the intervals that run; requests counts the requests to
\* the statistics endpoint that are in flight; destroyed records that the
\* view was torn down.
LeaderboardApp_constructor(i) ==
    [impl |-> i, currentPage |-> 1, allUsers |-> <<>>, lastUpdated |-> 0,
     updateTimer |-> 0, intervals |-> {}, isLoading |-> FALSE, requests |-> 0,
     loading |-> FALSE, table |-> FALSE, error |-> FALSE,
     rows |-> <<>>, destroyed |-> FALSE]

LbInit ==
    /\ lb \in {LeaderboardApp_constructor(i) : i \in LbImpls}
    /\ lbEv = NoLbEv

LbIdle ==
    /\ lb = LeaderboardApp_constructor("class")
    /\ lbEv = NoLbEv

\* loadLeaderboard() up to its await: nothing while a load is running,
\* else isLoading is set, #loading is shown and the request is sent.
LeaderboardApp_loadLeaderboardUnguarded ==
    [lb EXCEPT !.isLoading = TRUE, !.loading = TRUE, !.requests = @ + 1]
LeaderboardApp_loadLeaderboard ==
    IF lb.isLoading
    THEN lb
    ELSE [lb EXCEPT !.isLoading = TRUE, !.loading = TRUE, !.requests = @ + 1]

\* A call of loadLeaderboard() before the view is torn down: by init(), or
\* on the instance.
LbLoad ==
    /\ ~lb.destroyed
    /\ lb.lastUpdated < MaxLoads
    /\ lb' = LeaderboardApp_loadLeaderboard
    /\ lbEv' = [NoLbEv EXCEPT !.sent = lb'.requests > lb.requests]
    /\ UNCHANGED othersOfLb

\* The 5-minute interval of startUpdateTimer() fires.
LbUpdateTimer ==
    /\ lb.intervals # {}
    /\ lb.lastUpdated < MaxLoads
    /\ lb' = LeaderboardApp_loadLeaderboard
    /\ lbEv' = [NoLbEv EXCEPT !.op = "refresh", !.sent = lb'.requests > lb.requests]
    /\ UNCHANGED othersOfLb

\* renderTable(): only logs the number of users; it writes no row.
LeaderboardApp_renderTable(l) == l

\* showTable(): of the class also takes the class show from #loading.
LeaderboardApp_showTable(l) ==
    [l EXCEPT !.table = TRUE,
              !.loading = IF l.impl = "class" THEN FALSE ELSE l.loading]

\* startUpdateTimer(): clears the interval state.updateTimer holds, if it
\* holds one, and keeps the id of a new one there.
LeaderboardApp_startUpdateTimerKeeping(l, id) ==
    [l EXCEPT !.intervals = @ \cup {id}, !.updateTimer = id]
LeaderboardApp_startUpdateTimer(l, id) ==
    [l EXCEPT !.intervals = (IF l.updateTimer # 0 THEN @ \ {l.updateTimer} ELSE @)
                                \cup {id},
              !.updateTimer = id]

\* The catch block of loadLeaderboard(): showError().
LeaderboardApp_catchStoppingTimer(l) ==
    [l EXCEPT !.error = TRUE, !.intervals = {}, !.updateTimer = 0]
LeaderboardApp_catchClearing(l) == [l EXCEPT !.error = TRUE, !.allUsers = <<>>]
LeaderboardApp_catch(l) == [l EXCEPT !.error = TRUE]

\* The request ends with r: loadLeaderboard() after its await.  On success
\* the array is stored as received ([] for none), lastUpdated is set, the
\* table is rendered, the timer is restarted and the table is shown;
\* otherwise the catch block runs.  finally: isLoading.
LbResponse(r) ==
    /\ lb.requests > 0
    /\ LET success == r.ok /\ r.success
           stored == IF r.present THEN r.leaderboard ELSE <<>>
           tried == IF success
                    THEN LeaderboardApp_showTable(LeaderboardApp_startUpdateTimer(
                             LeaderboardApp_renderTable(
                                 [lb EXCEPT !.allUsers = stored,
                                            !.lastUpdated = lb.lastUpdated + 1]),
                             lb.lastUpdated + 1))
                    ELSE LeaderboardApp_catch(lb)
       IN  /\ lb' = [tried EXCEPT !.isLoading = FALSE, !.requests = @ - 1]
           /\ lbEv' = [op |-> "load", page |-> 0, from |-> lb.currentPage,
                       received |-> r.leaderboard,
                       loaded |-> success, rendered |-> success, sent |-> FALSE]
    /\ UNCHANGED othersOfLb

\* changePage(page).
LeaderboardApp_changePage(l, n) ==
    IF n = l.currentPage \/ n < 1 \/ n > TOTAL_PAGES
    THEN l
    ELSE LeaderboardApp_renderTable([l EXCEPT !.currentPage = n])

\* A call of changePage(n) of the class: by the click listener of a page
\* button, or on the instance.
ChangePage(n) ==
    /\ lb.impl = "class"
    /\ lb' = LeaderboardApp_changePage(lb, n)
    /\ lbEv' = [op |-> "changePage", page |-> n, from |-> lb.currentPage,
                received |-> <<>>, loaded |-> FALSE,
                rendered |-> lb'.currentPage # lb.currentPage, sent |-> FALSE]
    /\ UNCHANGED othersOfLb

\* The click listeners setupEventListeners() writes for #prevBtn and
\* #nextBtn.
PrevClick ==
    /\ lb.impl = "class"
    /\ lb' = IF lb.currentPage > 1
             THEN LeaderboardApp_changePage(lb, lb.currentPage - 1)
             ELSE lb
    /\ lbEv' = [op |-> "prev", page |-> lb.currentPage - 1,
                from |-> lb.currentPage, received |-> <<>>, loaded |-> FALSE,
                rendered |-> lb'.currentPage # lb.currentPage, sent |-> FALSE]
    /\ UNCHANGED othersOfLb

NextClick ==
    /\ lb.impl = "class"
    /\ lb' = IF lb.currentPage < TOTAL_PAGES
             THEN LeaderboardApp_changePage(lb, lb.currentPage + 1)
             ELSE lb
    /\ lbEv' = [op |-> "next", page |-> lb.currentPage + 1,
                from |-> lb.currentPage, received |-> <<>>, loaded |-> FALSE,
                rendered |-> lb'.currentPage # lb.currentPage, sent |-> FALSE]
    /\ UNCHANGED othersOfLb

\* Teardown: destroy() of the class, the beforeunload listener of the
\* object.  Both clear the interval state.updateTimer holds, destroy() also
\* sets it to null; a load that is running goes on.
LbDestroy ==
    /\ ~lb.destroyed
    /\ lb' = [lb EXCEPT !.intervals = @ \ {lb.updateTimer},
                        !.updateTimer = IF lb.impl = "class" THEN 0 ELSE @,
                        !.destroyed = TRUE]
    /\ lbEv' = [NoLbEv EXCEPT !.op = "destroy"]
    /\ UNCHANGED othersOfLb

----------------------------------------------------------------------------
(* PerformanceUtils.debounce(func, wait): the function it returns.  Time is  *)
(* a clock of ticks; a timer runs its callback when it is due, before the    *)
(* clock goes on and before an event of the same tick is handled.            *)

\* The arguments the debounced function is called with.
DebounceArgs == {"a", "b"}

(* now: the clock; timeout: the handle the closure holds (0: undefined);
   pending: the timers that are set, each with its handle, the tick it is due
   and the arguments of its call; ids: the handles given out; calls and
   invoked: the calls of the returned function and of func, with their
   ticks and arguments. *)
DebounceInit ==
    debounced = [now |-> 0, timeout |-> 0, pending |-> {}, ids |-> 0,
                 calls |-> <<>>, invoked |-> <<>>]

DebounceIdle ==
    debounced = [now |-> 0, timeout |-> 0, pending |-> {}, ids |-> 0,
                 calls |-> <<>>, invoked |-> <<>>]

\* clearTimeout(timeout)
ClearTimeout(pending, handle) == {t \in pending : t.id # handle}

\* executedFunction(...args): clearTimeout(timeout); timeout = setTimeout(later, wait)
PerformanceUtils_debounceKeeping(d, args) ==
    [d EXCEPT !.pending = @ \cup {[id |-> d.ids + 1, due |-> d.now + WaitTicks,
                                   args |-> args]},
              !.timeout = d.ids + 1,
              !.ids = d.ids + 1]
PerformanceUtils_debounce(d, args) ==
    [d EXCEPT !.pending = ClearTimeout(@, d.timeout)
                            \cup {[id |-> d.ids + 1, due |-> d.now + WaitTicks,
                                   args |-> args]},
              !.timeout = d.ids + 1,
              !.ids = d.ids + 1]

\* later(): clearTimeout(timeout); func(...args), of the timer t that fired
PerformanceUtils_later(d, t) ==
    [d EXCEPT !.pending = ClearTimeout(@ \ {t}, d.timeout),
              !.invoked = Append(@, [at |-> d.now, args |-> t.args])]

TimerDue == \E t \in debounced.pending : t.due <= debounced.now

\* A call of the debounced function
DebouncedCall(args) ==
    /\ Len(debounced.calls) < MaxDebounceCalls
    /\ ~TimerDue
    /\ debounced' = [PerformanceUtils_debounce(debounced, args)
                        EXCEPT !.calls = Append(@, [at |-> debounced.now,
                                                    args |-> args])]
    /\ UNCHANGED othersOfDebounce

\* A timer that is due runs later()
DebounceTimer ==
    /\ \E t \in debounced.pending :
          /\ t.due <= debounced.now
          /\ debounced' = PerformanceUtils_later(debounced, t)
    /\ UNCHANGED othersOfDebounce

\* The clock goes on by one tick
DebounceTick ==
    /\ debounced.now < MaxTicks
    /\ ~TimerDue
    /\ debounced' = [debounced EXCEPT !.now = @ + 1]
    /\ UNCHANGED othersOfDebounce

----------------------------------------------------------------------------
(* What main.js uses and does not hold: the level of a point total, which   *)
(* the answers carry as current_level, and the page-number controls, which *)
(* setupEventListeners() looks up in the page.  Both are written from the  *)
(* specification of the application.                                       *)

\* The marker of the ellipsis among the page numbers of the controls.
Ellipsis == 0

\* The point totals and page counts the two derivations are applied to.
PointTotals == {0, 1, 1000, 1001, 3500, 3501, 6000, 6001, 10000, 10001, 20000,
                50000}
PageCounts == 0..MaxPages

\* levelForPoints(totalPoints): the greatest level whose threshold is at
\* most totalPoints, 1 below every threshold.
levelForPoints(totalPoints) ==
    LET reached == {l \in DOMAIN LEVEL_THRESHOLDS : LEVEL_THRESHOLDS[l] <= totalPoints}
    IN  IF reached = {} THEN 1
        ELSE CHOOSE l \in reached : \A k \in reached : k <= l

\* The page-number controls of totalPages pages: one for each page, and for
\* more than 5 pages the first three, the ellipsis and the last.
pageControlsAll(totalPages) == [i \in 1..totalPages |-> i]
pageControls(totalPages) ==
    IF totalPages > 5
    THEN <<1, 2, 3, Ellipsis, totalPages>>
    ELSE [i \in 1..totalPages |-> i]

NoLevels == [done |-> FALSE, a |-> 0, b |-> 0]
NoControls == [done |-> FALSE, controls |-> <<>>]

DerivedInit ==
    /\ levelIn \in [a : PointTotals, b : PointTotals]
    /\ levelOut = NoLevels
    /\ pagesIn \in PageCounts
    /\ pagesOut = NoControls

DerivedIdle ==
    /\ levelIn = [a |-> 0, b |-> 0]
    /\ levelOut = NoLevels
    /\ pagesIn = 0
    /\ pagesOut = NoControls

EvalLevelForPoints ==
    /\ ~levelOut.done
    /\ levelOut' = [done |-> TRUE, a |-> levelForPoints(levelIn.a),
                    b |-> levelForPoints(levelIn.b)]
    /\ UNCHANGED <<levelIn, pagesIn, pagesOut, othersOfDerived>>

RenderPageControls ==
    /\ ~pagesOut.done
    /\ pagesOut' = [done |-> TRUE, controls |-> pageControls(pagesIn)]
    /\ UNCHANGED <<levelIn, levelOut, pagesIn, othersOfDerived>>

----------------------------------------------------------------------------
(* Specifications *)

InitAddr == AddrInit /\ TaskIdle /\ CtrlIdle /\ RenderIdle /\ LbIdle /\ DerivedIdle
    /\ DebounceIdle
NextAddr == RunIsValidAddress \/ RunValidateEthereumAddress
SpecAddr == InitAddr /\ [][NextAddr]_vars

InitTask == TaskInit /\ AddrIdle /\ CtrlIdle /\ RenderIdle /\ LbIdle /\ DerivedIdle
    /\ DebounceIdle
NextTask == EvalTaskProgress
SpecTask == InitTask /\ [][NextTask]_vars

Init == CtrlInit /\ AddrIdle /\ TaskIdle /\ RenderIdle /\ LbIdle /\ DerivedIdle
    /\ DebounceIdle
Next ==
    \/ ApiClick
    \/ ApiEnter
    \/ \E s \in InputNames : ApiInput(s)
    \/ \E c \in DOMAIN calls, r \in Responses : ApiResponse(c, r)
    \/ \E fin \in 0..MaxCalls : ApiAnimFrame(fin)
    \/ UiSubmit
    \/ UiHandleWalletSubmit
    \/ \E c \in DOMAIN calls, r \in Responses : UiResponse(c, r)
    \/ \E fin \in 0..MaxCalls : UiAnimFrame(fin)
    \/ UiFocusInput
    \/ UiBlur
    \/ \E s \in InputNames : UiInput(s)
    \/ UiThrottleReset
    \/ UiHideErrorTimer
Spec == Init /\ [][Next]_vars

InitRender == RenderInit /\ CtrlIdle /\ AddrIdle /\ TaskIdle /\ LbIdle /\ DerivedIdle
    /\ DebounceIdle
NextRender ==
    \/ \E data \in RenderSamples, ms \in TaskDurations : DisplayResults(data, ms)
    \/ LevelBarTimer
    \/ \E step \in 1..2 : AnimationFrame(step)
SpecRender == InitRender /\ [][NextRender]_vars

InitLb == LbInit /\ CtrlIdle /\ AddrIdle /\ TaskIdle /\ RenderIdle /\ DerivedIdle
    /\ DebounceIdle
NextLb ==
    \/ LbLoad
    \/ LbUpdateTimer
    \/ \E r \in LbResponses : LbResponse(r)
    \/ \E n \in PageArgs : ChangePage(n)
    \/ PrevClick
    \/ NextClick
    \/ LbDestroy
SpecLb == InitLb /\ [][NextLb]_vars

InitDerived == DerivedInit /\ CtrlIdle /\ AddrIdle /\ TaskIdle /\ RenderIdle /\ LbIdle
    /\ DebounceIdle
NextDerived == EvalLevelForPoints \/ RenderPageControls
SpecDerived == InitDerived /\ [][NextDerived]_vars

InitDebounce ==
    DebounceInit /\ CtrlIdle /\ AddrIdle /\ TaskIdle /\ RenderIdle /\ LbIdle /\ DerivedIdle
NextDebounce ==
    \/ \E args \in DebounceArgs : DebouncedCall(args)
    \/ DebounceTimer
    \/ DebounceTick
SpecDebounce == InitDebounce /\ [][NextDebounce]_vars

----------------------------------------------------------------------------
(* Properties of the wallet-check controllers *)

\* The address shape: 0x and exactly 40 hexadecimal digits of either case.
HexDigitEitherCase ==
    {"0", "1", "2", "3", "4", "5", "6", "7", "8", "9",
     "a", "b", "c", "d", "e", "f", "A", "B", "C", "D", "E", "F"}
IsAddressShape(s) ==
    /\ Len(s) = 42
    /\ SubSeq(s, 1, 2) = <<"0", "x">>
    /\ \A i \in 3..42 : s[i] \in HexDigitEitherCase

\* The entered address, as checkWalletStats reads it
EnteredAddress == Trim(InputText[walletInput])

\* C1: under PharosAPI at most one check-wallet request is in flight at any
\* time, and the check button is disabled for as long as one is in flight.
C1_OneRequestInFlight ==
    controller = "PharosAPI" =>
        /\ Cardinality(InFlight) <= 1
        /\ InFlight # {} => ui.disabled

\* C2: when a checkWalletStats call that entered the loading state completes,
\* whichever way its request ended, the loading indicator is hidden and the
\* submit button is enabled.
C2_LoadingLeftAtCompletion ==
    ev.completed => ~ui.loading /\ ~ui.disabled

\* C3: after a check of an address that is empty or not of the address shape,
\* the error display is up with a message, no request was issued and the
\* loading state is not active.
C3_InvalidAddressEndsInError ==
    (ev.op = "check" /\ ~IsAddressShape(EnteredAddress)) =>
        /\ ui.error
        /\ ui.errorText # ""
        /\ ev.call = 0
        /\ ~ui.loading

\* C5: when a request ended in a network failure, a non-OK status or a body
\* with success=false, the error display is up with a non-empty message and
\* nothing of that response was rendered: no count-up of it runs and no field
\* shows its payload.
C5_FailedRequestEndsInError ==
    (ev.op = "response" /\ ev.outcome \in {"netfail", "httperr", "appfail"}) =>
        /\ ev.completed
        /\ ui.error
        /\ ui.errorText # ""
        /\ ~calls[ev.call].anim
        /\ fields.numBy # ev.call
        /\ fields.textBy # ev.call

\* The generic fallback texts for a response with success=false
GenericFailureTexts ==
    {"Failed to fetch wallet statistics",
     "Failed to fetch wallet statistics. Please try again."}

\* C6: after a well-formed response with success=false, the message of the
\* error display is the message the server sent, and a generic fallback text
\* only when the server sent none.
C6_ServerMessageSurfaced ==
    (ev.op = "response" /\ ev.outcome = "appfail") =>
        IF ev.msg # "" THEN ui.errorText = ev.msg
        ELSE ui.errorText \in GenericFailureTexts

\* C7: a checkWalletStats call whose request or rendering failed completes,
\* having shown the error exactly once, and the error display is visible to
\* the user.
C7_FailureShownOnce ==
    (ev.op \in {"check", "response"} /\ ev.outcome \notin {"none", "ok"}) =>
        /\ ev.completed
        /\ ev.shows = 1
        /\ ui.error

\* C8: after displayResults was handed a payload without total_points or
\* current_level, the controller is in the error display and no field shows a
\* value of that payload, nor does a count-up of it run.
C8_InvalidPayloadRejected ==
    (ev.op \in {"response", "shown"} /\ ev.outcome = "ok" /\ ~calls[ev.call].valid) =>
        /\ ui.error
        /\ ~calls[ev.call].anim
        /\ fields.numBy # ev.call
        /\ fields.textBy # ev.call

----------------------------------------------------------------------------
(* Properties of the address validators *)

\* C4: each address validator accepts its input if and only if the input is
\* 0x followed by exactly 40 hexadecimal characters of either case.
C4_ValidatorsAcceptExactlyTheShape ==
    addrOut.fn # "none" => (addrOut.accepted <=> IsAddressShape(addrIn))

----------------------------------------------------------------------------
(* Properties of the task-progress evaluator *)

\* C9: the progress of getTaskProgress lies in [0, 100] and is 100 exactly
\* when isMaxed is true, for every task key and every count from 0 on.
C9_ProgressBounded ==
    taskOut # NoProgress =>
        /\ taskOut.progressDen > 0
        /\ 0 <= taskOut.progressNum
        /\ taskOut.progressNum <= 100 * taskOut.progressDen
        /\ (taskOut.progressNum = 100 * taskOut.progressDen) <=> taskOut.isMaxed

\* A count equal to a cap above 1 was evaluated and found maxed.
C9_Witness ==
    /\ taskOut # NoProgress
    /\ taskOut.isMaxed
    /\ taskIn.value = taskOut.max
    /\ taskOut.max > 1

DigitValue(c) == CHOOSE d \in 0..9 : DigitChar[d + 1] = c

\* The number a decimal numeral without sign denotes
RECURSIVE DecValue(_)
DecValue(s) ==
    IF s = <<>> THEN 0
    ELSE 10 * DecValue(SubSeq(s, 1, Len(s) - 1)) + DigitValue(s[Len(s)])

IsDecimal(s) ==
    /\ s # <<>>
    /\ \A i \in DOMAIN s : s[i] \in Digits
    /\ Len(s) > 1 => s[1] # "0"

\* s reads v/m: the decimal numeral of v, one slash, the decimal numeral of m
ReadsRatio(s, v, m) ==
    \E i \in DOMAIN s :
        /\ {j \in DOMAIN s : s[j] = "/"} = {i}
        /\ IsDecimal(SubSeq(s, 1, i - 1))
        /\ DecValue(SubSeq(s, 1, i - 1)) = v
        /\ IsDecimal(SubSeq(s, i + 1, Len(s)))
        /\ DecValue(SubSeq(s, i + 1, Len(s))) = m

\* C10: getTaskProgress(taskKey, v) returns as max the cap configured for
\* taskKey, or 91 for a key the cap table does not hold; isMaxed = (v >= max);
\* and the value text MAXED with the label 'Max points achieved!' when
\* isMaxed, else v/max with the label 'Progress to max points'.
C10_CapAndTexts ==
    taskOut # NoProgress =>
        LET cap == IF taskIn.key \in DOMAIN TASK_LIMITS THEN TASK_LIMITS[taskIn.key]
                   ELSE 91
        IN  /\ taskOut.max = cap
            /\ taskOut.isMaxed <=> (taskIn.value >= cap)
            /\ taskOut.isMaxed =>
                   /\ taskOut.valueText = <<"M", "A", "X", "E", "D">>
                   /\ taskOut.progressText = "Max points achieved!"
            /\ ~taskOut.isMaxed =>
                   /\ ReadsRatio(taskOut.valueText, taskIn.value, cap)
                   /\ taskOut.progressText = "Progress to max points"

\* A key outside the cap table was evaluated on a count of two digits below 91.
C10_Witness ==
    /\ taskOut # NoProgress
    /\ taskIn.key \notin DOMAIN TASK_LIMITS
    /\ taskOut.max = 91
    /\ ~taskOut.isMaxed
    /\ taskIn.value > 9

----------------------------------------------------------------------------
(* Properties of the result renderers *)

\* C11: for a payload whose level is 5 or more, the level progress bar is set
\* to 100%, whatever its total_points.
C11_MaxLevelBarFull ==
    (page.bar.kind = "pct" /\ page.bar.level >= 5) =>
        page.bar.num = 100 * page.bar.den

\* C12: the percentage written to the level progress bar lies in [0, 100] for
\* every payload.
C12_BarWithinBounds ==
    page.bar.kind = "pct" =>
        /\ 0 <= page.bar.num
        /\ page.bar.num <= 100 * page.bar.den

\* The thresholds of the levels 1..5
ClaimedThresholds == <<0, 1001, 3501, 6001, 10001>>

\* C13: for a level below 5 whose points lie within the level, the percentage
\* of the bar is (total_points - threshold[level]) * 100 /
\* (threshold[level+1] - threshold[level]).
C13_BarFromThresholds ==
    (page.bar.kind = "pct" /\ page.bar.level \in 1..4) =>
        LET pointsIntoLevel == page.bar.points - ClaimedThresholds[page.bar.level]
            pointsRequiredForLevel ==
                ClaimedThresholds[page.bar.level + 1] - ClaimedThresholds[page.bar.level]
        IN  (0 <= pointsIntoLevel /\ pointsIntoLevel <= pointsRequiredForLevel) =>
                page.bar.num * pointsRequiredForLevel
                    = pointsIntoLevel * 100 * page.bar.den

\* C14: the level shown never exceeds 5, in any frame of its count-up and for
\* every level the payload reports.
C14_LevelShownCapped ==
    page.level <= 5

\* A payload reporting a level above 5 was rendered and its count-up ended at 5.
C14_Witness ==
    /\ shown.n >= 1
    /\ shown.data.level > 5
    /\ anims = <<>>
    /\ page.level = 5

\* C15: after the render of one payload, the rank display reads the rank when
\* exact_rank is present and 'Unranked' when it is absent, and the population
\* display reads total_users_count when that is present and 270000 otherwise.
C15_RankAndPopulation ==
    (shown.n = 1 /\ anims = <<>>) =>
        /\ shown.data.rank # Absent => page.rank = [kind |-> "rank", n |-> shown.data.rank]
        /\ shown.data.rank = Absent => page.rank.kind = "unranked"
        /\ page.users = IF shown.data.users # Absent THEN shown.data.users ELSE 270000

\* C16: after the render of a payload whose member_since is absent or no date,
\* the membership display reads 'Unknown' with 0 days.
C16_MembershipUnknown ==
    (shown.n >= 1 /\ anims = <<>> /\ shown.data.member \notin {"jan", "feb"}) =>
        /\ page.member.kind = "unknown"
        /\ page.days = [kind |-> "num", n |-> 0]

\* C17: once displayResults has been handed a successful response, the
\* results region is visible and the call has completed, before any animation
\* frame has run.
C17_RenderNotBlockedByAnimation ==
    (ev.op = "response" /\ ev.outcome = "ok") =>
        /\ ui.results
        /\ ev.completed

\* C18: after every successful leaderboard load the retained entries
\* (state.allUsers) number at most 100 and are a prefix of the array
\* received, in the received order.
C18_RetainedTopHundred ==
    (lbEv.op = "load" /\ lbEv.loaded) =>
        /\ Len(lb.allUsers) <= 100
        /\ Len(lb.allUsers) <= Len(lbEv.received)
        /\ lb.allUsers = SubSeq(lbEv.received, 1, Len(lb.allUsers))

CeilDiv(a, b) == (a + b - 1) \div b

\* C19: after every successful leaderboard load, a periodic refresh with
\* another page than 1 selected included, the total page count is
\* ceil(retained entry count / 10) and currentPage is 1.
C19_LoadResetsPagination ==
    (lbEv.op = "load" /\ lbEv.loaded) =>
        /\ TOTAL_PAGES = CeilDiv(Len(lb.allUsers), 10)
        /\ lb.currentPage = 1

\* C20: changePage(n) leaves the pagination state as it is and does not
\* render when n < 1, n > ceil(entry count / 10) or n = currentPage; for
\* every other n it sets currentPage to n and renders the table.
C20_ChangePageGuard ==
    lbEv.op = "changePage" =>
        IF \/ lbEv.page < 1
           \/ lbEv.page > CeilDiv(Len(lb.allUsers), 10)
           \/ lbEv.page = lbEv.from
        THEN lb.currentPage = lbEv.from /\ ~lbEv.rendered
        ELSE lb.currentPage = lbEv.page /\ lbEv.rendered

LastPage == Max2(1, CeilDiv(Len(lb.allUsers), 10))

\* C21: after any sequence of loads, refreshes, page-number clicks and
\* previous/next clicks, 1 <= currentPage <= max(1, ceil(entry count / 10));
\* the previous control changes nothing at page 1, the next control changes
\* nothing at the last page.
C21_CurrentPageInRange ==
    /\ 1 <= lb.currentPage
    /\ lb.currentPage <= LastPage
    /\ (lbEv.op = "prev" /\ lbEv.from = 1) =>
           (lb.currentPage = 1 /\ ~lbEv.rendered)
    /\ (lbEv.op = "next" /\ lbEv.from = LastPage) =>
           (lb.currentPage = lbEv.from /\ ~lbEv.rendered)

RankClassClaimed(rank) ==
    CASE rank = 1 -> "rank-1"
      [] rank = 2 -> "rank-2"
      [] rank = 3 -> "rank-3"
      [] OTHER -> "rank-default"

RowsClaimed(users, p) ==
    LET first == (p - 1) * 10
        shownRows == Max2(0, Min(10, Len(users) - first))
    IN  [i \in 1..shownRows |->
            [rank |-> first + i, rankClass |-> RankClassClaimed(first + i),
             user |-> users[first + i]]]

\* C22: the rank shown for a row of the leaderboard is its global position
\* (currentPage - 1) * 10 + localIndex + 1; the ranks 1, 2 and 3 have a
\* presentation class of their own and every other rank the default class.
C22_GlobalRankShown ==
    lbEv.rendered => lb.rows = RowsClaimed(lb.allUsers, lb.currentPage)

\* C23: after the teardown of the leaderboard view no refresh timer is
\* active and the timer starts no further fetch, also when a load was
\* running at the teardown and succeeds afterwards.
C23_NoTimerAfterTeardown ==
    lb.destroyed => (lb.intervals = {} /\ lbEv.op # "refresh")

\* C24: the pagination state (allUsers, currentPage, lastUpdated) is modified
\* only by a successful load and by page navigation; a load that fails leaves
\* all three as they were.
C24_FailedLoadKeepsPagination ==
    [][ (\/ lb'.allUsers # lb.allUsers
         \/ lb'.currentPage # lb.currentPage
         \/ lb'.lastUpdated # lb.lastUpdated)
        => (\/ lbEv'.op = "load" /\ lbEv'.loaded
            \/ lbEv'.op \in {"changePage", "prev", "next"}) ]_vars

C24_Witness ==
    /\ lbEv.op = "load"
    /\ ~lbEv.loaded
    /\ lb.error
    /\ Len(lb.allUsers) = 25
    /\ lb.currentPage = 3
    /\ lb.lastUpdated = 1

\* C26: when a load of the leaderboard ends, in failure as in success, the
\* loading indicator showLoading put up at its start is removed.
C26_LoadingRemovedAfterLoad ==
    lbEv.op = "load" => ~lb.loading

\* C25: UIStateManager.currentState follows idle -> loading -> (results |
\* error) -> idle: while the error of a failed or rejected check is shown
\* (hideError has not dismissed it) currentState is 'error', and after a
\* successful check it is 'results'.
C25_CurrentStateMachine ==
    controller = "UIStateManager" =>
        /\ ui.error => ui.state = "error"
        /\ (ev.op = "response" /\ ev.outcome = "ok") => ui.state = "results"

\* C29: in UIStateManager a submit handled while currentState is 'loading'
\* issues no request and changes no state; so at most one request of
\* UIStateManager is in flight at any time, and currentState is 'loading'
\* for as long as a request is in flight.
C29_SubmitIgnoredWhileLoading ==
    /\ [](controller = "UIStateManager" =>
            /\ Cardinality(InFlight) <= 1
            /\ InFlight # {} => ui.state = "loading")
    /\ [][(controller = "UIStateManager" /\ ev'.op = "ignored") =>
            (ui.state = "loading" /\ ui' = ui /\ calls' = calls
             /\ fields' = fields /\ walletInput' = walletInput)]_vars

C29_Witness ==
    /\ controller = "UIStateManager"
    /\ ev.op = "ignored"
    /\ Cardinality(InFlight) = 1
    /\ ui.state = "loading"

\* C30: in every reachable state of the wallet-check controller at most one
\* of the loading, error and results regions is visible.
C30_OneRegionVisible ==
    /\ ~(ui.error /\ ui.results)
    /\ ~(ui.results /\ ui.loading)
    /\ ~(ui.error /\ ui.loading)

\* C27: one page-number control is rendered per page number, and for more
\* than 5 pages the listing is compacted to the pages 1, 2, 3, an ellipsis
\* marker and the last page, with no page in between.
C27_PageControlsCompacted ==
    pagesOut.done =>
        LET c == pagesOut.controls
        IN  IF pagesIn > 5
            THEN /\ Len(c) = 5
                 /\ c[1] = 1 /\ c[2] = 2 /\ c[3] = 3
                 /\ c[4] = Ellipsis
                 /\ c[5] = pagesIn
                 /\ \A i \in 1..Len(c) : c[i] \notin 4..(pagesIn - 1)
            ELSE /\ Len(c) = pagesIn
                 /\ \A i \in 1..pagesIn : c[i] = i

C27_Witness ==
    /\ pagesOut.done
    /\ pagesIn = 10
    /\ pagesOut.controls = <<1, 2, 3, Ellipsis, 10>>

\* C28: with the thresholds 0, 1001, 3501, 6001, 10001 the level of a point
\* total is the greatest level whose threshold is at most the total; it does
\* not decrease when the total grows and never exceeds the level 5.
C28_LevelForPointsMonotone ==
    levelOut.done =>
        /\ DOMAIN LEVEL_THRESHOLDS = 1..5
        /\ \A l \in 1..5 : LEVEL_THRESHOLDS[l] = ClaimedThresholds[l]
        /\ \A x \in {<<levelIn.a, levelOut.a>>, <<levelIn.b, levelOut.b>>} :
              /\ x[2] \in 1..5
              /\ ClaimedThresholds[x[2]] <= x[1]
              /\ \A l \in 1..5 : ClaimedThresholds[l] <= x[1] => l <= x[2]
        /\ levelIn.a <= levelIn.b => levelOut.a <= levelOut.b

C28_Witness ==
    /\ levelOut.done
    /\ levelIn = [a |-> 3500, b |-> 50000]
    /\ levelOut.a = 2
    /\ levelOut.b = 5

(* C31: when check requests overlap, the results finally displayed are those
   of the request submitted last: once no request is in flight and no count-up
   runs, a visible results region shows the numbers of the latest call, and
   the deferred display step of a request un-hides the results region only
   while that request is the latest one. *)
C31_LatestRequestDisplayed ==
    /\ (InFlight = {} /\ Animating = {} /\ ui.results) => fields.numBy = Len(calls)
    /\ ev.op = "shown" => ev.call = Len(calls)

(* C32: at most one leaderboard load is in flight: a call of loadLeaderboard
   while isLoading is set sends no request, and isLoading is set exactly
   while a request is in flight, so that it is reset when the load ends,
   with success or failure, and blocks no later refresh. *)
C32_OneLoadInFlight ==
    /\ lb.requests <= 1
    /\ lb.isLoading <=> lb.requests = 1
    /\ lbEv.op = "load" => ~lb.isLoading

\* The interval fired while a load was running and sent no request.
C32_Witness ==
    /\ lbEv.op = "refresh" /\ ~lbEv.sent
    /\ lb.isLoading /\ lb.requests = 1

(* C33: at most one refresh interval runs at any time, and it is the one
   state.updateTimer holds: startUpdateTimer has cleared the previous
   interval before it installs a new one. *)
C33_OneUpdateTimer ==
    /\ Cardinality(lb.intervals) <= 1
    /\ lb.intervals # {} => lb.intervals = {lb.updateTimer}

\* A second successful load has restarted the timer.
C33_Witness ==
    /\ lbEv.op = "load" /\ lbEv.loaded
    /\ lb.lastUpdated = 2
    /\ lb.intervals = {2}

(* C34: the refresh timer is started and restarted only by a load that
   succeeded, which leaves the new interval as the one that runs; a load that
   failed leaves the intervals and state.updateTimer as they were, so that
   no refresh is scheduled after a failed first load and the running timer
   stays after a failed refresh.  Apart from loads only the teardown changes
   them. *)
C34_TimerOnlyBySuccessfulLoad ==
    /\ [](lb.lastUpdated = 0 => (lb.intervals = {} /\ lb.updateTimer = 0))
    /\ [][/\ (lbEv'.op = "load" /\ lbEv'.loaded) =>
                (/\ lb'.updateTimer \notin lb.intervals
                 /\ lb'.updateTimer \in lb'.intervals)
          /\ (lbEv'.op = "load" /\ ~lbEv'.loaded) =>
                (lb'.intervals = lb.intervals /\ lb'.updateTimer = lb.updateTimer)
          /\ (lb'.intervals # lb.intervals \/ lb'.updateTimer # lb.updateTimer) =>
                lbEv'.op \in {"load", "destroy"}]_vars

\* A refresh has failed and the timer of the load before it still runs.
C34_Witness ==
    /\ lbEv.op = "load" /\ ~lbEv.loaded
    /\ lb.lastUpdated = 1
    /\ lb.intervals = {1} /\ lb.updateTimer = 1
    /\ lb.error

(* C35: an error message of UIStateManager.showError is hidden by an
   auto-hide timer only when its own 10 seconds have passed: the timer that
   hides a visible message is the one its showError has set, so no timer of a
   later showError is still pending. *)
C35_AutoHideAfterOwnDelay ==
    [][(ev'.op = "autohide" /\ ui.error) => ui'.hideTimers = 0]_vars

(* C36: when two renders have animated the same numeric element, the element
   shows the target value of the later render once every animation callback
   has run: the level, the population, the rank the later payload carries
   and the task count. *)
C36_LaterRenderWins ==
    (shown.n = 2 /\ anims = <<>>) =>
        /\ page.level = cappedLevel(shown.data.level)
        /\ page.users = (IF Truthy(shown.data.users) THEN shown.data.users
                         ELSE DefaultUsersCount)
        /\ Truthy(shown.data.rank) => page.rank = [kind |-> "rank", n |-> shown.data.rank]
        /\ page.sends = SendCount(shown.data)

(* C37: the three computations of the level progress agree: for a level of
   1..5 and any point total, the width the renderer of the page has set on
   the bar is the width each of the computations of v2.0, v4.0 and v2.1
   yields for the same payload. *)
C37_LevelBarsAgree ==
    (page.bar.kind = "pct" /\ page.bar.level \in 1..5) =>
        \A i \in Impls :
            LET w == LevelBar(i, page.bar.level, page.bar.points)
            IN  /\ w.write
                /\ w.num * page.bar.den = page.bar.num * w.den

\* The call k of the debounced function ends a burst: none follows it less
\* than the wait later.
LastOfBurst(k) ==
    \/ k = Len(debounced.calls)
    \/ debounced.calls[k + 1].at >= debounced.calls[k].at + WaitTicks

(* C38: func is invoked exactly once for every burst of calls of the
   debounced function, the wait after the last call of the burst and with
   the arguments of that call; the earlier calls of a burst invoke nothing. *)
C38_DebounceOncePerBurst ==
    LET c == debounced.calls
        v == debounced.invoked
    IN  /\ \A j \in DOMAIN v :
              \E k \in DOMAIN c :
                  /\ LastOfBurst(k)
                  /\ v[j] = [at |-> c[k].at + WaitTicks, args |-> c[k].args]
        /\ \A i, j \in DOMAIN v : i # j => v[i].at # v[j].at
        /\ \A k \in DOMAIN c :
              (LastOfBurst(k) /\ c[k].at + WaitTicks < debounced.now) =>
                  \E j \in DOMAIN v : v[j].at = c[k].at + WaitTicks

\* A burst of two calls with different arguments has invoked func once, with
\* the arguments of the second.
C38_Witness ==
    /\ Len(debounced.calls) = 2
    /\ debounced.calls[1].args # debounced.calls[2].args
    /\ debounced.calls[2].at = debounced.calls[1].at + 1
    /\ debounced.invoked = <<[at |-> debounced.calls[2].at + WaitTicks,
                              args |-> debounced.calls[2].args]>>

====
